---- MODULE Spec2Model ----
(***************************************************************************)
(* A model of the school fee application (src/app.py): the JSON credential *)
(* store with its sessions, and the CSV record store with its editor.      *)
(* Every action is one Streamlit script run: main() first calls            *)
(* initialize_files() and then runs the handler of the widget that was     *)
(* used.                                                                   *)
(***************************************************************************)
EXTENDS Integers, Sequences, FiniteSets, TLC

VARIABLES
    userdb,     \* users.json: [exists, users], users a map name -> account
    sessions,   \* st.session_state of each browser session
    clock,      \* datetime.now(), in whole ticks
    csv,        \* fees_data.csv: [kind, cols, rows]
    backup,     \* the backup_<timestamp>.csv written last: [exists, file]
    pandas,     \* the installed pandas major version, fixed for a run
    saving,     \* the save_to_csv call each session is in: [pc, file, data]
    appended,   \* history: the rows save_to_csv returned True for, and
                \* whether two of its calls ever overlapped
    last        \* the handler that ran last, its inputs and its outcome

vars == <<userdb, sessions, clock, csv, backup, pandas, saving, appended, last>>

-----------------------------------------------------------------------------
(* Bounds and input domains                                                *)

MaxClock == 1
MaxRows == 2

Usernames == {"admin", "bob"}
Passwords == {"admin123", "pw1"}
LoginNames == Usernames \cup {""}
LoginPasswords == Passwords \cup {""}
CredSessions == {"s1", "s2"}
NoUser == "<None>"

-----------------------------------------------------------------------------
(* Credential store                                                        *)

\* sha256(password).hexdigest(): a digest that differs for different inputs
hash_password(password) == <<"sha256", password>>

verify_password(stored_password, provided_password) ==
    stored_password = <<"sha256", provided_password>>

NoUserDb == [exists |-> FALSE, users |-> <<>>]

Account(password, is_admin, now) ==
    [password |-> hash_password(password), is_admin |-> is_admin, created_at |-> now]

\* A faulty initialization that writes the default admin on every run
initialize_always(db, now) ==
    [exists |-> TRUE,
     users |-> [u \in {"admin"} |-> Account("admin123", TRUE, now)]]

\* initialize_user_db: writes the default admin only when users.json is absent
initialize_user_db(db, now) ==
    IF ~db.exists
    THEN [exists |-> TRUE,
          users |-> [u \in {"admin"} |-> Account("admin123", TRUE, now)]]
    ELSE db

\* Faulty variants of the credential operators, for testing that the
\* properties below tell the difference
authenticate_any_password(db, username, password) ==
    db.exists /\ username \in DOMAIN db.users

create_overwrite(db, username, password, is_admin, now) ==
    LET users == IF db.exists THEN db.users ELSE <<>> IN
    [ok |-> TRUE,
     db |-> [exists |-> TRUE,
             users |-> [u \in DOMAIN users \cup {username} |->
                           IF u = username
                           THEN Account(password, is_admin, now)
                           ELSE users[u]]]]

delete_unprotected(db, user_to_delete, current_user) ==
    IF user_to_delete = current_user THEN [result |-> "own_account", db |-> db]
    ELSE IF user_to_delete \in DOMAIN db.users
         THEN [result |-> "deleted",
               db |-> [db EXCEPT !.users =
                          [u \in DOMAIN db.users \ {user_to_delete} |-> db.users[u]]]]
         ELSE [result |-> "not_found", db |-> db]

reset_replaces_account(db, selected_user, new_password) ==
    IF selected_user \in DOMAIN db.users
    THEN [ok |-> TRUE,
          db |-> [db EXCEPT !.users[selected_user] =
                                Account(new_password, FALSE, 0)]]
    ELSE [ok |-> FALSE, db |-> db]

delete_any(db, user_to_delete, current_user) ==
    IF user_to_delete \in DOMAIN db.users
    THEN [result |-> "deleted",
          db |-> [db EXCEPT !.users =
                     [u \in DOMAIN db.users \ {user_to_delete} |-> db.users[u]]]]
    ELSE [result |-> "not_found", db |-> db]

delete_own_allowed(db, user_to_delete, current_user) ==
    IF user_to_delete = "admin" THEN [result |-> "default_admin", db |-> db]
    ELSE IF user_to_delete \in DOMAIN db.users
         THEN [result |-> "deleted",
               db |-> [db EXCEPT !.users =
                          [u \in DOMAIN db.users \ {user_to_delete} |-> db.users[u]]]]
         ELSE [result |-> "not_found", db |-> db]

\* authenticate_user's return value; a missing file raises inside the try
authenticate_user(db, username, password) ==
    IF ~db.exists THEN FALSE
    ELSE IF username \in DOMAIN db.users
         THEN verify_password(db.users[username].password, password)
         ELSE FALSE

\* create_user: [ok, db]
create_user(db, username, password, is_admin, now) ==
    LET users == IF db.exists THEN db.users ELSE <<>> IN
    IF username \in DOMAIN users
    THEN [ok |-> FALSE, db |-> db]
    ELSE [ok |-> TRUE,
          db |-> [exists |-> TRUE,
                  users |-> [u \in DOMAIN users \cup {username} |->
                                IF u = username
                                THEN Account(password, is_admin, now)
                                ELSE users[u]]]]

\* the Delete User button of user_management: [result, db]
delete_user(db, user_to_delete, current_user) ==
    IF user_to_delete = current_user THEN [result |-> "own_account", db |-> db]
    ELSE IF user_to_delete = "admin" THEN [result |-> "default_admin", db |-> db]
    ELSE IF user_to_delete \in DOMAIN db.users
         THEN [result |-> "deleted",
               db |-> [db EXCEPT !.users =
                          [u \in DOMAIN db.users \ {user_to_delete} |-> db.users[u]]]]
         ELSE [result |-> "not_found", db |-> db]

\* the Reset Password form of user_management: [ok, db]
reset_password(db, selected_user, new_password) ==
    IF selected_user \in DOMAIN db.users
    THEN [ok |-> TRUE,
          db |-> [db EXCEPT !.users[selected_user].password =
                                hash_password(new_password)]]
    ELSE [ok |-> FALSE, db |-> db]

-----------------------------------------------------------------------------
(* Sessions                                                                *)

LoggedOut(show_login) ==
    [authenticated |-> FALSE, current_user |-> NoUser, is_admin |-> FALSE,
     show_login |-> show_login]

SessionInit == LoggedOut(FALSE)

-----------------------------------------------------------------------------
(* Record store: the CSV file and pandas' reading of it                    *)

ExpectedColumns ==
    <<"ID", "Student Name", "Class Category", "Class Section", "Month",
      "Monthly Fee", "Annual Charges", "Admission Fee",
      "Received Amount", "Date", "Signature", "Entry Timestamp">>

CLASS_CATEGORIES ==
    <<"Nursery", "KGI", "KGII",
      "Class 1", "Class 2", "Class 3", "Class 4", "Class 5",
      "Class 6", "Class 7", "Class 8", "Class 9", "Class 10 (Matric)">>

months ==
    <<"APRIL", "MAY", "JUNE", "JULY", "AUGUST", "SEPTEMBER",
      "OCTOBER", "NOVEMBER", "DECEMBER", "JANUARY", "FEBRUARY", "MARCH">>

SeqToSet(s) == {s[i] : i \in DOMAIN s}

\* A file is absent, unparseable (zero bytes or broken rows) or a table of
\* text cells; a row is a function from the column names to cell texts.
AbsentFile == [kind |-> "absent", cols |-> <<>>, rows |-> <<>>]
CorruptFile == [kind |-> "corrupt", cols |-> <<>>, rows |-> <<>>]
Table(cols, rows) == [kind |-> "table", cols |-> cols, rows |-> rows]

\* pd.read_csv's default na_values: these cell texts are read as NaN.  NaN is
\* modelled as the empty text, which is also how to_csv writes it.
NAStrings == {"", "#N/A", "N/A", "NA", "NULL", "NaN", "n/a", "nan", "null"}

ReadNA(text) == IF text \in NAStrings THEN "" ELSE text

\* pd.read_csv's dtype inference: a column whose cells are all integer
\* literals is read as numbers, so a zero-padded text loses its zeros (the
\* float form pandas gives such a column when it also holds NaN is taken as
\* equal to the integer).
IsIntText(text) == text \in {"0", "500", "03356450", "3356450"}

CanonInt(text) == IF text = "03356450" THEN "3356450" ELSE text

IsNumericColumn(rows, c) ==
    LET cells == {ReadNA(rows[i][c]) : i \in DOMAIN rows} \ {""} IN
    cells # {} /\ \A t \in cells : IsIntText(t)

\* pd.read_csv(CSV_FILE) of a parseable file: a DataFrame [cols, rows]
read_csv(file) ==
    LET names == SeqToSet(file.cols)
        numeric == {c \in names : IsNumericColumn(file.rows, c)}
    IN [cols |-> file.cols,
        rows |-> [i \in DOMAIN file.rows |->
                    [c \in names |->
                       LET v == ReadNA(file.rows[i][c]) IN
                       IF v # "" /\ c \in numeric THEN CanonInt(v) ELSE v]]]

\* df.to_csv(CSV_FILE, index=False)
to_csv(df) == Table(df.cols, df.rows)

\* for col in expected_columns: if col not in df.columns: df[col] = np.nan
AddMissingColumns(df) ==
    LET have == SeqToSet(df.cols)
        Missing(c) == c \notin have
        cols == df.cols \o SelectSeq(ExpectedColumns, Missing)
        names == SeqToSet(cols)
    IN IF have = names THEN df
       ELSE [cols |-> cols,
             rows |-> [i \in DOMAIN df.rows |->
                         [c \in names |->
                            IF c \in have THEN df.rows[i][c] ELSE ""]]]

\* initialize_csv: [raised, file].  When read_csv raises, the handler uses
\* expected_columns, which is assigned only after read_csv returned: the
\* handler itself raises UnboundLocalError and the file stays as it was.
initialize_csv(file) ==
    CASE file.kind = "absent" ->
            [raised |-> FALSE, file |-> Table(ExpectedColumns, <<>>)]
      [] file.kind = "corrupt" ->
            [raised |-> TRUE, file |-> file]
      [] OTHER ->
            [raised |-> FALSE, file |-> to_csv(AddMissingColumns(read_csv(file)))]

\* A faulty concat that keeps only the new row
concat_new_row(df, keys, data) ==
    [cols |-> keys, rows |-> <<data>>]

\* pd.concat([df, pd.DataFrame([data])], ignore_index=True), data a row over
\* the sequence of columns keys
Concat(df, keys, data) ==
    LET old == SeqToSet(df.cols)
        new == SeqToSet(keys)
        New(c) == c \notin old
        cols == df.cols \o SelectSeq(keys, New)
        names == SeqToSet(cols)
        Fill(have, row) == [c \in names |-> IF c \in have THEN row[c] ELSE ""]
    IN [cols |-> cols,
        rows |-> [i \in DOMAIN df.rows |-> Fill(old, df.rows[i])]
                 \o <<Fill(new, data)>>]

\* save_to_csv: [ok, file]
save_to_csv(file, data) ==
    CASE file.kind = "corrupt" -> [ok |-> FALSE, file |-> file]
      [] file.kind = "absent" ->
            [ok |-> TRUE,
             file |-> to_csv(Concat([cols |-> ExpectedColumns, rows |-> <<>>],
                                    ExpectedColumns, data))]
      [] OTHER ->
            [ok |-> TRUE,
             file |-> to_csv(Concat(read_csv(file), ExpectedColumns, data))]

\* update_data: the DataFrame replaces the file
update_data(df) == [ok |-> TRUE, file |-> to_csv(df)]

-----------------------------------------------------------------------------
(* Dates: the texts the program writes and pd.to_datetime's reading        *)

\* The day and month numbers of the model's dates; the year is always 2024.
DateNums == {3, 5, 25}

D2(n) == CASE n = 3 -> "03" [] n = 5 -> "05" [] n = 25 -> "25"

\* The time part of a text: its strftime format, its text, its hour:minute.
TimeTexts ==
    {[fmt |-> "", text |-> "", hm |-> "00:00"],
     [fmt |-> "%H:%M", text |-> " 10:11", hm |-> "10:11"],
     [fmt |-> "%H:%M", text |-> " 00:00", hm |-> "00:00"],
     [fmt |-> "%H:%M:%S", text |-> " 10:11:12", hm |-> "10:11"]}

\* A date text is <year>-a-b or a-b-<year>, followed by a time part.
Shapes == [yfirst : BOOLEAN, a : DateNums, b : DateNums, t : TimeTexts]

ShapeText(s) ==
    IF s.yfirst
    THEN "2024-" \o D2(s.a) \o "-" \o D2(s.b) \o s.t.text
    ELSE D2(s.a) \o "-" \o D2(s.b) \o "-2024" \o s.t.text

Lexicon == {<<ShapeText(s), s>> : s \in Shapes}

IsDateText(text) == \E p \in Lexicon : p[1] = text

Lex(text) == (CHOOSE p \in Lexicon : p[1] = text)[2]

NaT == [d |-> 0, m |-> 0, hm |-> "00:00"]

\* A shape read on its own: ISO texts are year-month-day whatever dayfirst
\* says; a-b-<year> is read by dateutil, which prefers day first or month
\* first as asked and swaps when the month would be over 12.
ReadShape(s, dayfirst) ==
    IF s.yfirst
    THEN IF s.a <= 12 THEN [d |-> s.b, m |-> s.a, hm |-> s.t.hm] ELSE NaT
    ELSE IF dayfirst
         THEN IF s.b <= 12 THEN [d |-> s.a, m |-> s.b, hm |-> s.t.hm]
              ELSE IF s.a <= 12 THEN [d |-> s.b, m |-> s.a, hm |-> s.t.hm]
              ELSE NaT
         ELSE IF s.a <= 12 THEN [d |-> s.b, m |-> s.a, hm |-> s.t.hm]
              ELSE IF s.b <= 12 THEN [d |-> s.a, m |-> s.b, hm |-> s.t.hm]
              ELSE NaT

\* One text read on its own (pandas 1.x, and pandas 2.x when it cannot guess a
\* format).  NaT stands for a failed parse.
ParseOne(text, dayfirst) ==
    IF IsDateText(text) THEN ReadShape(Lex(text), dayfirst) ELSE NaT

\* pandas 2.x guesses one format from the first non-null text: the field
\* that equals the parsed month is %m, the other one %d.
FormatOf(s, p) ==
    [yfirst |-> s.yfirst,
     order |-> IF s.yfirst THEN "ymd" ELSE IF p.m = s.a THEN "mdy" ELSE "dmy",
     time |-> s.t.fmt]

GuessFormat(text, dayfirst) == FormatOf(Lex(text), ParseOne(text, dayfirst))

\* A shape read with a fixed format (pandas 2.x): NaT when it does not match
MatchShape(s, f) ==
    IF s.yfirst # f.yfirst \/ s.t.fmt # f.time THEN NaT
    ELSE IF f.order = "dmy"
         THEN IF s.b <= 12 THEN [d |-> s.a, m |-> s.b, hm |-> s.t.hm] ELSE NaT
         ELSE IF s.a <= 12 THEN [d |-> s.b, m |-> s.a, hm |-> s.t.hm] ELSE NaT

ParseWithFormat(text, f) ==
    IF IsDateText(text) THEN MatchShape(Lex(text), f) ELSE NaT

\* the index of the first non-null text, 0 when there is none
FirstValid(texts) ==
    LET filled == {i \in DOMAIN texts : texts[i] # ""} IN
    IF filled = {} THEN 0 ELSE CHOOSE i \in filled : \A j \in filled : i <= j

\* pandas 2.x has a format when the first non-null text can be read
HasFormat(version, texts, dayfirst, first) ==
    /\ version = 2
    /\ first # 0
    /\ ParseOne(texts[first], dayfirst) # NaT

\* the column's values; NaN becomes NaT
ReadTexts(version, texts, dayfirst, first) ==
    [i \in DOMAIN texts |->
        IF texts[i] = "" THEN NaT
        ELSE IF HasFormat(version, texts, dayfirst, first)
             THEN ParseWithFormat(texts[i], GuessFormat(texts[first], dayfirst))
             ELSE ParseOne(texts[i], dayfirst)]

\* a text that cannot be read raises unless errors='coerce'
Parsed(texts, coerce, vals) ==
    [raised |-> ~coerce /\ \E i \in DOMAIN texts : texts[i] # "" /\ vals[i] = NaT,
     vals |-> vals]

\* pd.to_datetime(column, dayfirst=..., errors=...): [raised, vals]
to_datetime(version, texts, dayfirst, coerce) ==
    Parsed(texts, coerce, ReadTexts(version, texts, dayfirst, FirstValid(texts)))

\* A faulty variant of strftime that writes the month first
strftime_month_first(v, withTime) ==
    IF v = NaT THEN ""
    ELSE D2(v.m) \o "-" \o D2(v.d) \o "-2024"
         \o (IF withTime THEN " " \o v.hm ELSE "")

\* .dt.strftime('%d-%m-%Y') and .dt.strftime('%d-%m-%Y %H:%M'); NaT gives NaN
strftime(v, withTime) ==
    IF v = NaT THEN ""
    ELSE D2(v.d) \o "-" \o D2(v.m) \o "-2024"
         \o (IF withTime THEN " " \o v.hm ELSE "")

\* the except branch of load_data's date handling
Fallback(version, texts, strict) ==
    IF strict.raised
    THEN to_datetime(version, texts, FALSE, TRUE).vals
    ELSE strict.vals

\* load_data's try / except around each of the two date columns
FormatDates(version, texts, withTime) ==
    LET vals == Fallback(version, texts, to_datetime(version, texts, TRUE, FALSE))
    IN [i \in DOMAIN texts |-> strftime(vals[i], withTime)]

\* df.dropna(how='all')
dropna(df) ==
    LET names == SeqToSet(df.cols)
        Keep(row) == \E c \in names : row[c] # ""
    IN
    [cols |-> df.cols, rows |-> SelectSeq(df.rows, Keep)]

EmptyFrame == [cols |-> <<>>, rows |-> <<>>]

Column(df, c) == [i \in DOMAIN df.rows |-> df.rows[i][c]]

\* load_data's date handling and its dropna, on the reconciled DataFrame
NormalizeDates(version, df) ==
    LET dates == FormatDates(version, Column(df, "Date"), FALSE)
        stamps == FormatDates(version, Column(df, "Entry Timestamp"), TRUE)
    IN dropna([cols |-> df.cols,
               rows |-> [i \in DOMAIN df.rows |->
                           [df.rows[i] EXCEPT !["Date"] = dates[i],
                                              !["Entry Timestamp"] = stamps[i]]]])

\* load_data: the DataFrame the pages work on
load_data(version, file) ==
    IF file.kind # "table" THEN EmptyFrame
    ELSE NormalizeDates(version, AddMissingColumns(read_csv(file)))

-----------------------------------------------------------------------------
(* The Enter Fees form and the editor form                                 *)

\* md5(name + "_" + class).hexdigest()[:8].upper(), for the model's names
IdTable ==
    {<<"Ali", "KGI", "03356450">>, <<"Ali", "Class 1", "7E892CE1">>,
     <<"Ali", "", "A0D586B9">>,
     <<"Sara", "KGI", "AE6780CC">>, <<"Sara", "Class 1", "35A081F4">>,
     <<"Sara", "", "67586414">>,
     <<"", "KGI", "639623D4">>, <<"", "Class 1", "5E2A6A76">>,
     <<"", "", "B14A7B80">>}

generate_student_id(student_name, class_category) ==
    (CHOOSE t \in IdTable : t[1] = student_name /\ t[2] = class_category)[3]

Today == [d |-> 5, m |-> 3]

Form(name, class, section, month, fee, recv, date) ==
    [name |-> name, class |-> class, section |-> section, month |-> month,
     fee |-> fee, annual |-> "0", admission |-> "0", recv |-> recv,
     date |-> date, signature |-> "Clerk"]

FeeForms ==
    {Form("Ali", "KGI", "A", "APRIL", "500", "500", [d |-> 5, m |-> 3]),
     Form("Sara", "KGI", "N/A", "JUNE", "0", "0", [d |-> 25, m |-> 3]),
     Form("", "KGI", "A", "APRIL", "500", "500", [d |-> 5, m |-> 3])}

EditForms ==
    {Form("Sara", "KGI", "A", "MAY", "500", "500", [d |-> 5, m |-> 3])}

IsoDate(date) == "2024-" \o D2(date.m) \o "-" \o D2(date.d)

\* the fee_data dictionary of the Enter Fees handler
fee_data(form) ==
    [c \in SeqToSet(ExpectedColumns) |->
        CASE c = "ID" -> generate_student_id(form.name, form.class)
          [] c = "Student Name" -> form.name
          [] c = "Class Category" -> form.class
          [] c = "Class Section" -> form.section
          [] c = "Month" -> form.month
          [] c = "Monthly Fee" -> form.fee
          [] c = "Annual Charges" -> form.annual
          [] c = "Admission Fee" -> form.admission
          [] c = "Received Amount" -> form.recv
          [] c = "Date" -> IsoDate(form.date)
          [] c = "Signature" -> form.signature
          [] c = "Entry Timestamp" -> IsoDate(Today) \o " 10:11:12"]

\* the editor's Update Record: the df.loc[edit_index, ...] assignments
edit_row(row, form) ==
    [row EXCEPT !["Student Name"] = form.name,
                !["Class Category"] = form.class,
                !["Class Section"] = form.section,
                !["Month"] = form.month,
                !["Monthly Fee"] = form.fee,
                !["Annual Charges"] = form.annual,
                !["Admission Fee"] = form.admission,
                !["Received Amount"] = form.recv,
                !["Date"] = strftime([d |-> form.date.d, m |-> form.date.m, hm |-> "00:00"], FALSE),
                !["Signature"] = form.signature,
                !["Entry Timestamp"] = strftime([d |-> Today.d, m |-> Today.m, hm |-> "10:11"], TRUE)]

\* the editor's Delete Record: df.drop(index=edit_index)
drop_row(df, i) ==
    [cols |-> df.cols,
     rows |-> [j \in 1..(Len(df.rows) - 1) |->
                 IF j < i THEN df.rows[j] ELSE df.rows[j + 1]]]

\* the edit form is drawn only for a record whose class and month are in
\* the select boxes' lists (list.index raises otherwise)
Editable(row) ==
    /\ row["Class Category"] \in SeqToSet(CLASS_CATEGORIES)
    /\ row["Month"] \in SeqToSet(months)

-----------------------------------------------------------------------------
(* Reports: the Student Yearly Report and the class tabs' summary          *)

\* the number pandas reads in an amount cell; sum() skips NaN
Amount(text) == CASE text = "500" -> 500 [] OTHER -> 0

\* Series.sum() of column c over rows
RECURSIVE SumCol(_, _)
SumCol(rows, c) ==
    IF rows = <<>> THEN 0
    ELSE Amount(Head(rows)[c]) + SumCol(Tail(rows), c)

\* df[df[c] == v]
Where(rows, c, v) ==
    LET Is(row) == row[c] = v IN SelectSeq(rows, Is)

\* Series.unique() without NaN, as a set
Unique(rows, c) == {rows[i][c] : i \in DOMAIN rows} \ {""}

\* student_data: the rows of the selected student in the selected class
student_data(df, selected_student, selected_class) ==
    Where(Where(df.rows, "Student Name", selected_student),
          "Class Category", selected_class)

\* student_data.groupby('Month').agg({'Monthly Fee': 'sum',
\* 'Received Amount': 'sum'}): one entry per month that has a row
monthly_data(rows) ==
    [m \in Unique(rows, "Month") |->
        [fee |-> SumCol(Where(rows, "Month", m), "Monthly Fee"),
         recv |-> SumCol(Where(rows, "Month", m), "Received Amount")]]

\* A faulty merge that keeps only the months that have a row
merge_inner(all_months, data) ==
    LET Has(m) == m \in DOMAIN data
        kept == SelectSeq(all_months, Has)
    IN [i \in DOMAIN kept |->
          [Month |-> kept[i], fee |-> data[kept[i]].fee, recv |-> data[kept[i]].recv]]

\* monthly_report.merge(monthly_data, on='Month', how='left').fillna(0)
merge_left(all_months, data) ==
    [i \in DOMAIN all_months |->
        IF all_months[i] \in DOMAIN data
        THEN [Month |-> all_months[i],
              fee |-> data[all_months[i]].fee,
              recv |-> data[all_months[i]].recv]
        ELSE [Month |-> all_months[i], fee |-> 0, recv |-> 0]]

\* the Status column: 'Paid' if row['Monthly Fee'] > 0 else 'Unpaid'
with_status(report) ==
    [i \in DOMAIN report |->
        [Month |-> report[i].Month, fee |-> report[i].fee, recv |-> report[i].recv,
         Status |-> IF report[i].fee > 0 THEN "Paid" ELSE "Unpaid"]]

\* the report's own list of the months of the academic year
all_months ==
    <<"APRIL", "MAY", "JUNE", "JULY", "AUGUST", "SEPTEMBER",
      "OCTOBER", "NOVEMBER", "DECEMBER", "JANUARY", "FEBRUARY", "MARCH">>

\* the Monthly Fee Details table of the Student Yearly Report
monthly_report(df, selected_student, selected_class) ==
    with_status(merge_left(all_months,
        monthly_data(student_data(df, selected_student, selected_class))))

\* class_df: the rows of one class tab
class_df(df, category) == Where(df.rows, "Class Category", category)

\* class_df['Student Name'].nunique()
total_students(rows) == Cardinality(Unique(rows, "Student Name"))

\* A faulty count that takes a student as unpaid only when no row is paid
unpaid_every_row(rows) ==
    Cardinality({n \in Unique(rows, "Student Name") :
                    \A i \in DOMAIN rows :
                       rows[i]["Student Name"] = n => rows[i]["Monthly Fee"] = "0"})

\* class_df[class_df['Monthly Fee'] == 0]['Student Name'].nunique()
unpaid_students(rows) ==
    Cardinality(Unique(Where(rows, "Monthly Fee", "0"), "Student Name"))

\* the order in which groupby lists its keys: sorted as strings
sorted_keys ==
    <<"APRIL", "AUGUST", "DECEMBER", "FEBRUARY", "JANUARY", "JULY",
      "JUNE", "MARCH", "MAY", "NOVEMBER", "OCTOBER", "SEPTEMBER">>

\* class_df.groupby('Month')['Received Amount'].sum().reset_index(): one row
\* per month that has a record, in the order of the sorted keys
monthly_summary(rows) ==
    LET Present(m) == m \in Unique(rows, "Month")
        keys == SelectSeq(sorted_keys, Present)
    IN [i \in DOMAIN keys |->
          [Month |-> keys[i],
           recv |-> SumCol(Where(rows, "Month", keys[i]), "Received Amount")]]

-----------------------------------------------------------------------------
(* Script runs                                                             *)

\* initialize_files(): initialize_csv(), then initialize_user_db()
initialize_files(c) ==
    [raised |-> c.raised,
     csv |-> c.file,
     userdb |-> IF c.raised THEN userdb ELSE initialize_user_db(userdb, clock)]

Boot == initialize_files(initialize_csv(csv))

Ran(op, s, result) == [op |-> op, s |-> s, result |-> result]

\* initialize_files() raised: main() has no handler, the run ends there
Unhandled(op, s) ==
    /\ last' = Ran(op, s, "unhandled")
    /\ UNCHANGED <<userdb, sessions, clock, csv, backup, pandas, saving, appended>>

\* A faulty menu that offers every page to every user
menu_for_everyone(session) ==
    {"Enter Fees", "View All Records", "Student Yearly Report",
     "User Management", "System Tools"}

\* the sidebar menu of main_app
MenuOptions(session) ==
    IF session.is_admin
    THEN {"Enter Fees", "View All Records", "Student Yearly Report",
          "User Management", "System Tools"}
    ELSE {"Enter Fees", "View All Records", "Student Yearly Report"}

\* main() shows main_app only to an authenticated session
CanOpen(s, menu) ==
    /\ sessions[s].authenticated
    /\ menu \in MenuOptions(sessions[s])

\* a run with no widget used (the page is opened or reloaded)
Rerun(s) ==
    LET boot == Boot IN
    IF boot.raised THEN Unhandled("rerun", s)
    ELSE /\ csv' = boot.csv
         /\ userdb' = boot.userdb
         /\ last' = Ran("rerun", s, "ok")
         /\ UNCHANGED <<sessions, clock, backup, pandas, saving, appended>>

\* home_page: the "Get Started / Login" button
GetStarted(s) ==
    /\ ~sessions[s].authenticated
    /\ ~sessions[s].show_login
    /\ LET boot == Boot IN
       IF boot.raised THEN Unhandled("get_started", s)
       ELSE /\ csv' = boot.csv
            /\ userdb' = boot.userdb
            /\ sessions' = [sessions EXCEPT ![s].show_login = TRUE]
            /\ last' = Ran("get_started", s, "ok")
            /\ UNCHANGED <<clock, backup, pandas, saving, appended>>

\* login_page: the login form, with authenticate_user's session writes
Login(s, username, password) ==
    /\ ~sessions[s].authenticated
    /\ sessions[s].show_login
    /\ LET boot == Boot IN
       IF boot.raised THEN Unhandled("login", s)
       ELSE LET ok == authenticate_user(boot.userdb, username, password) IN
            /\ csv' = boot.csv
            /\ userdb' = boot.userdb
            /\ sessions' =
                 IF ok
                 THEN [sessions EXCEPT ![s] =
                         [authenticated |-> TRUE,
                          current_user |-> username,
                          is_admin |-> boot.userdb.users[username].is_admin,
                          show_login |-> TRUE]]
                 ELSE sessions
            /\ last' = Ran("login", s, IF ok THEN "true" ELSE "false")
            /\ UNCHANGED <<clock, backup, pandas, saving, appended>>

\* main_app: the Logout button
Logout(s) ==
    /\ sessions[s].authenticated
    /\ LET boot == Boot IN
       IF boot.raised THEN Unhandled("logout", s)
       ELSE /\ csv' = boot.csv
            /\ userdb' = boot.userdb
            /\ sessions' = [sessions EXCEPT ![s] = LoggedOut(FALSE)]
            /\ last' = Ran("logout", s, "ok")
            /\ UNCHANGED <<clock, backup, pandas, saving, appended>>

\* user_management: the Create New User form
CreateUser(s, username, password, confirm, is_admin) ==
    /\ CanOpen(s, "User Management")
    /\ LET boot == Boot IN
       IF boot.raised THEN Unhandled("create", s)
       ELSE LET valid == username # "" /\ password # "" /\ password = confirm
                r == create_user(boot.userdb, username, password, is_admin, clock)
            IN /\ csv' = boot.csv
               /\ userdb' = IF valid THEN r.db ELSE boot.userdb
               /\ last' = Ran("create", s,
                               IF ~valid THEN "rejected"
                               ELSE IF r.ok THEN "created" ELSE "exists")
               /\ UNCHANGED <<sessions, clock, backup, pandas, saving, appended>>

\* user_management: the Delete User button on the listed users
DeleteUser(s, user_to_delete) ==
    /\ CanOpen(s, "User Management")
    /\ LET boot == Boot IN
       IF boot.raised THEN Unhandled("delete", s)
       ELSE /\ user_to_delete \in DOMAIN boot.userdb.users
            /\ LET r == delete_user(boot.userdb, user_to_delete,
                                    sessions[s].current_user)
               IN /\ userdb' = r.db
                  /\ last' = Ran("delete", s, r.result)
            /\ csv' = boot.csv
            /\ UNCHANGED <<sessions, clock, backup, pandas, saving, appended>>

\* user_management: the Reset Password form on the listed users
ResetPassword(s, selected_user, new_password, confirm) ==
    /\ CanOpen(s, "User Management")
    /\ LET boot == Boot IN
       IF boot.raised THEN Unhandled("reset", s)
       ELSE /\ selected_user \in DOMAIN boot.userdb.users
            /\ LET valid == new_password # "" /\ new_password = confirm
                   r == reset_password(boot.userdb, selected_user, new_password)
               IN /\ userdb' = IF valid THEN r.db ELSE boot.userdb
                  /\ last' = Ran("reset", s,
                                  IF ~valid THEN "rejected"
                                  ELSE IF r.ok THEN "reset" ELSE "error")
            /\ csv' = boot.csv
            /\ UNCHANGED <<sessions, clock, backup, pandas, saving, appended>>

\* time passes
Tick ==
    /\ clock < MaxClock
    /\ clock' = clock + 1
    /\ UNCHANGED <<userdb, sessions, csv, backup, pandas, saving, appended, last>>

-----------------------------------------------------------------------------
(* Record pages                                                            *)

\* Enter Fees: the fee form's submit
EnterFees(s, form) ==
    /\ CanOpen(s, "Enter Fees")
    /\ Len(csv.rows) < MaxRows
    /\ LET boot == Boot IN
       IF boot.raised THEN Unhandled("enter", s)
       ELSE LET valid == form.name # "" /\ form.class # "" /\ form.signature # ""
                r == save_to_csv(boot.csv, fee_data(form))
            IN /\ csv' = IF valid THEN r.file ELSE boot.csv
               /\ userdb' = boot.userdb
               /\ last' = Ran("enter", s,
                               IF ~valid THEN "rejected"
                               ELSE IF r.ok THEN "saved" ELSE "failed")
               /\ UNCHANGED <<sessions, clock, backup, pandas, saving, appended>>

\* st.rerun() after a successful write: the script runs again at once, and
\* its initialize_files() reconciles the file that was just written
rerun_after(written) == initialize_csv(written.file).file

\* View All Records: the editor's Update Record on the loaded record i
EditorUpdate(s, i, form) ==
    /\ CanOpen(s, "View All Records")
    /\ LET boot == Boot IN
       IF boot.raised THEN Unhandled("update", s)
       ELSE \E df \in {load_data(pandas, boot.csv)} :
            /\ i \in DOMAIN df.rows
            /\ Editable(df.rows[i])
            /\ csv' = rerun_after(update_data([df EXCEPT !.rows[i] = edit_row(@, form)]))
            /\ userdb' = boot.userdb
            /\ last' = Ran("update", s, "updated")
            /\ UNCHANGED <<sessions, clock, backup, pandas, saving, appended>>

\* View All Records: the editor's Delete Record on the loaded record i
EditorDelete(s, i) ==
    /\ CanOpen(s, "View All Records")
    /\ LET boot == Boot IN
       IF boot.raised THEN Unhandled("delete_record", s)
       ELSE \E df \in {load_data(pandas, boot.csv)} :
            /\ i \in DOMAIN df.rows
            /\ Editable(df.rows[i])
            /\ csv' = rerun_after(update_data(drop_row(df, i)))
            /\ userdb' = boot.userdb
            /\ last' = Ran("delete_record", s, "deleted")
            /\ UNCHANGED <<sessions, clock, backup, pandas, saving, appended>>

\* System Tools: Reinitialize CSV File (shutil.copyfile, then initialize_csv)
Reinitialize(s) ==
    /\ CanOpen(s, "System Tools")
    /\ LET boot == Boot IN
       IF boot.raised THEN Unhandled("reinitialize", s)
       ELSE LET r == initialize_csv(boot.csv) IN
            /\ backup' = IF boot.csv.kind # "absent"
                         THEN [exists |-> TRUE, file |-> boot.csv]
                         ELSE backup
            /\ csv' = r.file
            /\ userdb' = boot.userdb
            /\ last' = Ran("reinitialize", s, IF r.raised THEN "error" ELSE "reinitialized")
            /\ UNCHANGED <<sessions, clock, pandas, saving, appended>>

\* no save_to_csv call is running; nothing was appended yet
NotSaving == [pc |-> "idle", file |-> AbsentFile, data |-> <<>>]
NoneAppended == [done |-> <<>>, interleaved |-> FALSE]

\* Enter Fees in two steps, for runs of several sessions at once. First the
\* run up to save_to_csv's read of the file: the session holds what it read
SaveRead(s, form) ==
    /\ CanOpen(s, "Enter Fees")
    /\ saving[s].pc = "idle"
    /\ Len(appended.done) + Cardinality({t \in DOMAIN saving : saving[t].pc = "read"})
          < MaxRows
    /\ LET boot == Boot IN
       IF boot.raised THEN Unhandled("enter", s)
       ELSE LET valid == form.name # "" /\ form.class # "" /\ form.signature # ""
                reads == valid /\ boot.csv.kind # "corrupt"
            IN /\ csv' = boot.csv
               /\ userdb' = boot.userdb
               /\ saving' = IF reads
                            THEN [saving EXCEPT ![s] =
                                    [pc |-> "read", file |-> boot.csv,
                                     data |-> fee_data(form)]]
                            ELSE saving
               /\ appended' = IF reads /\ \E t \in DOMAIN saving : saving[t].pc = "read"
                              THEN [appended EXCEPT !.interleaved = TRUE]
                              ELSE appended
               /\ last' = Ran("enter", s,
                               IF ~valid THEN "rejected"
                               ELSE IF reads THEN "reading" ELSE "failed")
               /\ UNCHANGED <<sessions, clock, backup, pandas>>

\* then the rest of save_to_csv: the row is added to what was read and the
\* file is rewritten with the result
SaveWrite(s) ==
    /\ saving[s].pc = "read"
    /\ \E r \in {save_to_csv(saving[s].file, saving[s].data)} :
          /\ csv' = r.file
          /\ appended' = IF r.ok
                         THEN [appended EXCEPT !.done = Append(@, saving[s].data)]
                         ELSE appended
          /\ last' = Ran("enter", s, IF r.ok THEN "saved" ELSE "failed")
    /\ saving' = [saving EXCEPT ![s] = NotSaving]
    /\ UNCHANGED <<userdb, sessions, clock, backup, pandas>>

\* View All Records without an edit: the tabs and their summaries are shown
ViewRecords(s) ==
    /\ CanOpen(s, "View All Records")
    /\ LET boot == Boot IN
       IF boot.raised THEN Unhandled("view", s)
       ELSE \E df \in {load_data(pandas, boot.csv)} :
            /\ csv' = boot.csv
            /\ userdb' = boot.userdb
            /\ last' = Ran("view", s, IF df.rows = <<>> THEN "empty" ELSE "shown")
            /\ UNCHANGED <<sessions, clock, backup, pandas, saving, appended>>

\* Student Yearly Report: a class and one of its students are selected
YearlyReport(s, selected_class, selected_student) ==
    /\ CanOpen(s, "Student Yearly Report")
    /\ LET boot == Boot IN
       IF boot.raised THEN Unhandled("yearly_report", s)
       ELSE \E df \in {load_data(pandas, boot.csv)} :
            /\ selected_class \in Unique(df.rows, "Class Category")
            /\ selected_student \in
                  Unique(Where(df.rows, "Class Category", selected_class),
                         "Student Name")
            /\ csv' = boot.csv
            /\ userdb' = boot.userdb
            /\ last' = Ran("yearly_report", s, "shown")
            /\ UNCHANGED <<sessions, clock, backup, pandas, saving, appended>>

-----------------------------------------------------------------------------
(* Specifications                                                          *)

PandasVersions == {1, 2}

NoBackup == [exists |-> FALSE, file |-> AbsentFile]

\* The credential store and its sessions, from a fresh installation
Init ==
    /\ userdb = NoUserDb
    /\ sessions = [s \in CredSessions |-> SessionInit]
    /\ clock = 0
    /\ csv = AbsentFile
    /\ backup = NoBackup
    /\ pandas = 2
    /\ saving = [s \in CredSessions |-> NotSaving]
    /\ appended = NoneAppended
    /\ last = Ran("start", "", "ok")

Next ==
    \/ Tick
    \/ \E s \in DOMAIN sessions : GetStarted(s)
    \/ \E s \in DOMAIN sessions : Logout(s)
    \/ \E s \in DOMAIN sessions, u \in LoginNames, p \in LoginPasswords : Login(s, u, p)
    \/ \E s \in DOMAIN sessions, u \in LoginNames, p \in LoginPasswords,
          c \in LoginPasswords, a \in BOOLEAN : CreateUser(s, u, p, c, a)
    \/ \E s \in DOMAIN sessions, u \in Usernames : DeleteUser(s, u)
    \/ \E s \in DOMAIN sessions, u \in Usernames, p \in LoginPasswords,
          c \in LoginPasswords : ResetPassword(s, u, p, c)

Spec == Init /\ [][Next]_vars

\* The sessions and the menu: logins and logouts, the pages of User
\* Management and System Tools, and a page every logged-in user may open
NextMenu ==
    \/ \E s \in DOMAIN sessions : GetStarted(s)
    \/ \E s \in DOMAIN sessions : Logout(s)
    \/ \E s \in DOMAIN sessions, u \in LoginNames, p \in LoginPasswords : Login(s, u, p)
    \/ \E s \in DOMAIN sessions, u \in LoginNames, p \in LoginPasswords,
          c \in LoginPasswords, a \in BOOLEAN : CreateUser(s, u, p, c, a)
    \/ \E s \in DOMAIN sessions, u \in Usernames : DeleteUser(s, u)
    \/ \E s \in DOMAIN sessions, u \in Usernames, p \in LoginPasswords,
          c \in LoginPasswords : ResetPassword(s, u, p, c)
    \/ \E s \in DOMAIN sessions : Reinitialize(s)
    \/ \E s \in DOMAIN sessions : ViewRecords(s)

SpecMenu == Init /\ [][NextMenu]_vars

\* A file written by an earlier version of the program: no section and no
\* entry timestamp, one more column, a date nobody can read
LegacyColumns ==
    <<"ID", "Student Name", "Class Category", "Month", "Monthly Fee",
      "Annual Charges", "Admission Fee", "Received Amount", "Date", "Signature",
      "Remarks">>

LegacyRow ==
    [c \in SeqToSet(LegacyColumns) |->
        CASE c = "ID" -> generate_student_id("Ali", "KGI")
          [] c = "Student Name" -> "Ali"
          [] c = "Class Category" -> "KGI"
          [] c = "Month" -> "APRIL"
          [] c = "Monthly Fee" -> "500"
          [] c = "Annual Charges" -> "0"
          [] c = "Admission Fee" -> "0"
          [] c = "Received Amount" -> "500"
          [] c = "Date" -> "??"
          [] c = "Signature" -> "Clerk"
          [] c = "Remarks" -> "late"]

LegacyFile == Table(LegacyColumns, <<LegacyRow>>)

InitialFiles == {AbsentFile, CorruptFile, LegacyFile}

RecSessions == {"s1"}

\* the classes and the students the report pages are asked for
ReportClasses == {"KGI", "Class 1"}
ReportStudents == {"Ali", "Sara"}

\* The record store, used by one session that has logged in as admin
InitRec ==
    /\ userdb = initialize_user_db(NoUserDb, 0)
    /\ sessions = [s \in RecSessions |->
                     [authenticated |-> TRUE, current_user |-> "admin",
                      is_admin |-> TRUE, show_login |-> TRUE]]
    /\ clock = 0
    /\ csv \in InitialFiles
    /\ backup = NoBackup
    /\ pandas \in PandasVersions
    /\ saving = [s \in RecSessions |-> NotSaving]
    /\ appended = NoneAppended
    /\ last = Ran("start", "", "ok")

NextRec ==
    \/ \E s \in DOMAIN sessions : Rerun(s)
    \/ \E s \in DOMAIN sessions, f \in FeeForms : EnterFees(s, f)
    \/ \E s \in DOMAIN sessions, i \in 1..MaxRows, f \in EditForms : EditorUpdate(s, i, f)
    \/ \E s \in DOMAIN sessions, i \in 1..MaxRows : EditorDelete(s, i)
    \/ \E s \in DOMAIN sessions, c \in ReportClasses, n \in ReportStudents :
          YearlyReport(s, c, n)
    \/ \E s \in DOMAIN sessions : ViewRecords(s)

SpecRec == InitRec /\ [][NextRec]_vars

\* The System Tools page on a store that is being filled
\* Two sessions enter fees at the same time into a new file
InitRace ==
    /\ userdb = initialize_user_db(NoUserDb, 0)
    /\ sessions = [s \in CredSessions |->
                     [authenticated |-> TRUE, current_user |-> "admin",
                      is_admin |-> TRUE, show_login |-> TRUE]]
    /\ clock = 0
    /\ csv = AbsentFile
    /\ backup = NoBackup
    /\ pandas \in PandasVersions
    /\ saving = [s \in CredSessions |-> NotSaving]
    /\ appended = NoneAppended
    /\ last = Ran("start", "", "ok")

NextRace ==
    \/ \E s \in DOMAIN sessions, f \in FeeForms : SaveRead(s, f)
    \/ \E s \in DOMAIN sessions : SaveWrite(s)

SpecRace == InitRace /\ [][NextRace]_vars

NextTools ==
    \/ \E s \in DOMAIN sessions : Rerun(s)
    \/ \E s \in DOMAIN sessions, f \in FeeForms : EnterFees(s, f)
    \/ \E s \in DOMAIN sessions : Reinitialize(s)

SpecTools == InitRec /\ [][NextTools]_vars

-----------------------------------------------------------------------------
(* Credential store properties, under Spec                                 *)

\* C1: a login attempt is accepted if and only if the username is a key of
\* the credential store and the hash of the password equals the stored hash;
\* an unknown username is refused for every password and nothing is raised.
C1_AuthenticateIff ==
    [][\A s \in DOMAIN sessions, u \in LoginNames, p \in LoginPasswords :
          Login(s, u, p) =>
             /\ last'.result \in {"true", "false"}
             /\ last'.result = "true" <=>
                   /\ u \in DOMAIN userdb.users
                   /\ userdb.users[u].password = hash_password(p)
             /\ u \notin DOMAIN userdb.users => last'.result = "false"]_vars

\* a created account has logged in with its own password
C1_Witness ==
    /\ last.op = "login"
    /\ last.result = "true"
    /\ sessions[last.s].current_user = "bob"

\* C2: deleting "admin", or the account of the session that asks, is refused
\* and leaves the credential store as it was, whatever came before.
C2_ProtectedDeletion ==
    [][\A s \in DOMAIN sessions, u \in Usernames :
          (DeleteUser(s, u) /\ (u = "admin" \/ u = sessions[s].current_user)) =>
             /\ last'.result \in {"own_account", "default_admin"}
             /\ userdb' = userdb]_vars

\* another administrator has asked to delete "admin" and was refused
C2_Witness ==
    /\ last.op = "delete"
    /\ last.result = "default_admin"
    /\ sessions[last.s].current_user = "bob"
    /\ "admin" \in DOMAIN userdb.users

\* C3: creating a username that is in the store fails and changes no account;
\* creating an absent one adds exactly that account, with the hash of the
\* password and the given admin flag, and changes no other account.
C3_CreateUser ==
    [][(last'.op = "create" /\ last'.result \in {"created", "exists"}) =>
       \A u \in LoginNames, p \in LoginPasswords, a \in BOOLEAN :
          CreateUser(last'.s, u, p, p, a) =>
             IF u \in DOMAIN userdb.users
             THEN last'.result = "exists" /\ userdb' = userdb
             ELSE /\ last'.result = "created"
                  /\ DOMAIN userdb'.users = DOMAIN userdb.users \cup {u}
                  /\ userdb'.users[u].password = hash_password(p)
                  /\ userdb'.users[u].is_admin = a
                  /\ \A v \in DOMAIN userdb.users :
                        userdb'.users[v] = userdb.users[v]]_vars

\* a second create of "bob" was refused, both accounts still stored
C3_Witness ==
    /\ last.op = "create"
    /\ last.result = "exists"
    /\ DOMAIN userdb.users = {"admin", "bob"}

-----------------------------------------------------------------------------
(* Record store properties, under SpecRec and SpecTools                    *)

\* C4: after Reinitialize the record file has zero rows and exactly the 12
\* header columns, whatever it held before, and when a file existed the
\* backup holds the content the file had.
C4_ReinitializeEmpties ==
    [][\A s \in DOMAIN sessions :
          (Reinitialize(s) /\ last'.result = "reinitialized") =>
             /\ csv' = Table(ExpectedColumns, <<>>)
             /\ csv.kind # "absent" =>
                   backup'.exists /\ backup'.file = initialize_csv(csv).file]_vars

\* C5: no run ends in an unhandled fault, also when the record file exists
\* and cannot be parsed: start-up initialization, load, append and replace
\* all end in a handled outcome.
C5_NoUnhandledFault == last.result # "unhandled"

\* C6: in every reachable state each stored record's ID is
\* generate_student_id of that record's name and class.
C6_StoredIds ==
    csv.kind = "table" =>
       \A i \in DOMAIN csv.rows :
          csv.rows[i]["ID"] = generate_student_id(csv.rows[i]["Student Name"],
                                                  csv.rows[i]["Class Category"])

\* C7: a saved Enter Fees submit adds exactly one row, the last one, holding
\* the submitted values; every row stored before keeps its values and order.
C7_AppendOneRow ==
    [][\A s \in DOMAIN sessions, f \in FeeForms :
          (EnterFees(s, f) /\ last'.result = "saved") =>
             /\ csv'.kind = "table"
             /\ Len(csv'.rows) = Len(csv.rows) + 1
             /\ \A c \in SeqToSet(ExpectedColumns) :
                   csv'.rows[Len(csv'.rows)][c] = fee_data(f)[c]
             /\ \A i \in DOMAIN csv.rows :
                   \A c \in SeqToSet(csv.cols) :
                      csv'.rows[i][c] = csv.rows[i][c]]_vars

\* C8: the editor's delete removes exactly the selected row, its update keeps
\* the row count and the selected row's ID, and every other row, as load_data
\* returns it afterwards, has the values and the order it had before.
C8_EditorFrame ==
    [][/\ \A s \in DOMAIN sessions, i \in 1..MaxRows :
             (EditorDelete(s, i) /\ last'.result = "deleted") =>
                \E before \in {load_data(pandas, csv)},
                   after \in {load_data(pandas, csv')} :
                   /\ Len(after.rows) = Len(before.rows) - 1
                   /\ \A j \in DOMAIN after.rows :
                         after.rows[j] = before.rows[IF j < i THEN j ELSE j + 1]
       /\ \A s \in DOMAIN sessions, i \in 1..MaxRows, f \in EditForms :
             (EditorUpdate(s, i, f) /\ last'.result = "updated") =>
                \E before \in {load_data(pandas, csv)},
                   after \in {load_data(pandas, csv')} :
                   /\ Len(after.rows) = Len(before.rows)
                   /\ after.rows[i]["ID"] = before.rows[i]["ID"]
                   /\ \A j \in DOMAIN after.rows :
                         j # i => after.rows[j] = before.rows[j]]_vars

\* C9: loading the records, writing them back with update_data and loading
\* again gives the rows of the first load, for every file the program can
\* have written, the YYYY-MM-DD forms of Enter Fees included.
C9_RoundTrip ==
    csv.kind = "table" =>
       load_data(pandas, update_data(load_data(pandas, csv)).file)
          = load_data(pandas, csv)

\* a row just written by Enter Fees, in the YYYY-MM-DD forms, stands next to
\* a row the editor has rewritten as DD-MM-YYYY
C9_Witness ==
    /\ last.op = "enter"
    /\ last.result = "saved"
    /\ Len(csv.rows) = 2
    /\ csv.rows[1]["Date"] = "05-03-2024"
    /\ csv.rows[1]["Entry Timestamp"] = "05-03-2024 10:11"
    /\ csv.rows[2]["Date"] = "2024-03-25"
    /\ csv.rows[2]["Entry Timestamp"] = "2024-03-05 10:11:12"

\* C10: reconciling a file that lacks expected columns adds each of them,
\* empty in every row, keeps every other column and every row as it was, and
\* reconciling or loading the rewritten file again changes nothing.
C10_Reconciliation ==
    [][\A s \in DOMAIN sessions :
          (/\ Rerun(s)
           /\ csv.kind = "table"
           /\ \E c \in SeqToSet(ExpectedColumns) : c \notin SeqToSet(csv.cols)) =>
             /\ csv'.kind = "table"
             /\ SeqToSet(csv'.cols) = SeqToSet(csv.cols) \cup SeqToSet(ExpectedColumns)
             /\ Len(csv'.rows) = Len(csv.rows)
             /\ \A i \in DOMAIN csv.rows :
                   \A c \in SeqToSet(csv'.cols) :
                      csv'.rows[i][c] = IF c \in SeqToSet(csv.cols)
                                        THEN csv.rows[i][c] ELSE ""
             /\ initialize_csv(csv').file = csv'
             /\ load_data(pandas, initialize_csv(csv').file)
                   = load_data(pandas, csv')]_vars

\* C11: for every student and class with records, the yearly report's
\* monthly table has the 12 months from APRIL to MARCH, each with the sums of
\* Monthly Fee and Received Amount over the matching rows of that month (zero
\* without a row), and is "Paid" exactly when the summed Monthly Fee is over 0.
C11_YearlyReport ==
    csv.kind = "table" =>
       \E df \in {load_data(pandas, csv)} :
          \A c \in Unique(df.rows, "Class Category"), n \in Unique(df.rows, "Student Name") :
             \E report \in {monthly_report(df, n, c)} :
                /\ Len(report) = 12
                /\ \A i \in 1..12 :
                      LET Matches(row) == /\ row["Student Name"] = n
                                          /\ row["Class Category"] = c
                                          /\ row["Month"] = months[i]
                          rows == SelectSeq(df.rows, Matches)
                      IN /\ report[i].Month = months[i]
                         /\ report[i].fee = SumCol(rows, "Monthly Fee")
                         /\ report[i].recv = SumCol(rows, "Received Amount")
                         /\ report[i].Status = "Paid" <=> report[i].fee > 0
                         /\ report[i].Status \in {"Paid", "Unpaid"}

\* the report of Sara was shown while she has a paid row in MAY and a row
\* without fee in JUNE
C11_Witness ==
    /\ last.op = "yearly_report"
    /\ Len(csv.rows) = 2
    /\ \E df \in {load_data(pandas, csv)} :
          \E report \in {monthly_report(df, "Sara", "KGI")} :
             /\ report[2].Status = "Paid" /\ report[2].recv = 500
             /\ report[3].Status = "Unpaid"
             /\ Len(student_data(df, "Sara", "KGI")) = 2

\* the position of a month in the academic calendar, APRIL = 1 .. MARCH = 12
CalendarPosition(m) == CHOOSE i \in DOMAIN months : months[i] = m

\* C12: the monthly received series of every class summary lists its months in
\* the order of the academic calendar, APRIL first and MARCH last, each with
\* the sum of Received Amount of the class's rows of that month.
C12_CalendarOrder ==
    (csv.kind = "table" /\ last.op = "view" /\ last.result = "shown") =>
       \E df \in {load_data(pandas, csv)} :
          \A category \in SeqToSet(CLASS_CATEGORIES) :
             \E series \in {monthly_summary(class_df(df, category))} :
                /\ \A i \in DOMAIN series :
                      series[i].recv =
                         SumCol(Where(class_df(df, category), "Month", series[i].Month),
                                "Received Amount")
                /\ \A i, j \in DOMAIN series :
                      i < j => CalendarPosition(series[i].Month)
                                  < CalendarPosition(series[j].Month)

\* C13: in every class summary, Unpaid Students is the number of distinct
\* student names that have at least one row of the class with Monthly Fee 0,
\* whatever their other rows hold, and Total Students is the number of distinct
\* student names of the class.
C13_ClassSummary ==
    csv.kind = "table" =>
       \E df \in {load_data(pandas, csv)} :
          \A category \in SeqToSet(CLASS_CATEGORIES) :
             \E rows \in {class_df(df, category)} :
                LET Names == {rows[i]["Student Name"] : i \in DOMAIN rows} \ {""}
                    ZeroFee == {n \in Names :
                                  \E i \in DOMAIN rows :
                                     /\ rows[i]["Student Name"] = n
                                     /\ rows[i]["Monthly Fee"] = "0"}
                IN /\ unpaid_students(rows) = Cardinality(ZeroFee)
                   /\ total_students(rows) = Cardinality(Names)
                   /\ \A i \in DOMAIN df.rows :
                         df.rows[i]["Class Category"] = category => rows # <<>>

\* the summary of KGI was shown while Sara has a paid row and a row without
\* fee: she is the one student of the class and she counts as unpaid
C13_Witness ==
    /\ last.op = "view" /\ last.result = "shown"
    /\ \E df \in {load_data(pandas, csv)} :
          \E rows \in {class_df(df, "KGI")} :
             /\ Len(rows) = 2
             /\ \E i, j \in 1..2 :
                   /\ rows[i]["Student Name"] = "Sara" /\ rows[i]["Monthly Fee"] = "0"
                   /\ rows[j]["Student Name"] = "Sara" /\ rows[j]["Monthly Fee"] = "500"
             /\ unpaid_students(rows) = 1
             /\ total_students(rows) = 1

\* C14: a password reset of an existing account makes the new password
\* authenticate and every old password with another hash fail, and leaves the
\* account's admin flag and creation time and every other account as they
\* were; a reset of a username that is not stored adds no account and leaves
\* the credential store unchanged.
C14_ResetPassword ==
    [][/\ (last'.op = "reset" /\ last'.result = "reset" /\ clock' = clock) =>
             \E u \in DOMAIN userdb.users, p2 \in Passwords :
                /\ ResetPassword(last'.s, u, p2, p2)
                /\ authenticate_user(userdb', u, p2)
                /\ \A old \in Passwords :
                      (/\ authenticate_user(userdb, u, old)
                       /\ hash_password(old) # hash_password(p2))
                         => ~authenticate_user(userdb', u, old)
                /\ DOMAIN userdb'.users = DOMAIN userdb.users
                /\ userdb'.users[u].is_admin = userdb.users[u].is_admin
                /\ userdb'.users[u].created_at = userdb.users[u].created_at
                /\ \A v \in DOMAIN userdb.users \ {u} :
                      userdb'.users[v] = userdb.users[v]
       /\ userdb.exists =>
             \A u \in Usernames \ DOMAIN userdb.users, p2 \in Passwords :
                reset_password(userdb, u, p2) = [ok |-> FALSE, db |-> userdb]]_vars

\* the password of "admin" was reset to another one while "bob" is stored
C14_Witness ==
    /\ last.op = "reset" /\ last.result = "reset"
    /\ "bob" \in DOMAIN userdb.users
    /\ authenticate_user(userdb, "admin", "pw1")
    /\ ~authenticate_user(userdb, "admin", "admin123")

\* C16: initializing the credential store is idempotent: without a store it
\* writes exactly one account, "admin", with the hash of the default password
\* and the admin flag set; with a store it changes nothing, so no account is
\* restored, reset or removed by it.
C16_InitializeIdempotent ==
    \A now \in 0..MaxClock :
       /\ userdb.exists => initialize_user_db(userdb, now) = userdb
       /\ ~userdb.exists =>
             \E db \in {initialize_user_db(userdb, now)} :
                /\ db.exists
                /\ DOMAIN db.users = {"admin"}
                /\ db.users["admin"].password = hash_password("admin123")
                /\ db.users["admin"].is_admin
                /\ initialize_user_db(db, now) = db

\* "admin" has logged in with a password other than the default one: the
\* run's initialization found the store and did not restore the default
C16_Witness ==
    /\ last.op = "login" /\ last.result = "true"
    /\ sessions[last.s].current_user = "admin"
    /\ userdb.users["admin"].password = hash_password("pw1")

\* C17: once the credential store is initialized it always holds an account
\* "admin" whose admin flag is set.
C17_AdminAlwaysExists ==
    userdb.exists =>
       /\ "admin" \in DOMAIN userdb.users
       /\ userdb.users["admin"].is_admin

\* an account was deleted and "admin" is what is left
C17_Witness ==
    /\ last.op = "delete" /\ last.result = "deleted"
    /\ DOMAIN userdb.users = {"admin"}

\* C18: creating or deleting a user, resetting a password and reinitializing
\* the record file are run only by a session that is authenticated and has
\* its is_admin flag set; any other session that runs a page of the menu runs
\* one of Enter Fees, View All Records and Student Yearly Report.
C18_AdminOnly ==
    [][/\ last'.op \in {"create", "delete", "reset", "reinitialize"} =>
             /\ sessions[last'.s].authenticated
             /\ sessions[last'.s].is_admin
       /\ (/\ last'.op \notin {"get_started", "login", "logout", "rerun"}
           /\ ~(sessions[last'.s].authenticated /\ sessions[last'.s].is_admin))
             => /\ last'.op \in {"enter", "view", "yearly_report"}
                /\ sessions[last'.s].authenticated]_vars

\* after an administrator reinitialized the record file, a logged-in user
\* without the admin flag has opened View All Records
C18_Witness ==
    /\ last.op = "view"
    /\ sessions[last.s].authenticated
    /\ ~sessions[last.s].is_admin
    /\ backup.exists

\* C19 as stated: in every reachable state the current_user of every
\* authenticated session is an account of the credential store.
C19_SessionsNameAccounts ==
    \A s \in DOMAIN sessions :
       sessions[s].authenticated =>
          sessions[s].current_user \in DOMAIN userdb.users

\* C19: the account of an authenticated session is in the credential store
\* when the session logs in, and it can leave the store only by a Delete User
\* of another session; no session removes its own account, and the account of
\* a session logged in as "admin" is never removed.
C19_OnlyOthersDelete ==
    [][\A s \in DOMAIN sessions :
          (/\ sessions'[s].authenticated
           /\ sessions'[s].current_user \notin DOMAIN userdb'.users)
             => \/ /\ sessions[s].authenticated
                   /\ sessions[s].current_user = sessions'[s].current_user
                   /\ sessions[s].current_user \notin DOMAIN userdb.users
                \/ /\ last'.op = "delete" /\ last'.result = "deleted"
                   /\ last'.s # s
                   /\ sessions[s].authenticated
                   /\ sessions[s].current_user = sessions'[s].current_user
                   /\ sessions[s].current_user # "admin"
                   /\ sessions[last'.s].current_user # sessions[s].current_user]_vars

\* one session has deleted the account another session is logged in as
C19_Witness ==
    /\ last.op = "delete" /\ last.result = "deleted"
    /\ \E s \in DOMAIN sessions \ {last.s} :
          /\ sessions[s].authenticated
          /\ sessions[s].current_user = "bob"
          /\ "bob" \notin DOMAIN userdb.users

\* C15: when the appends of the sessions never overlap, each running from its
\* read to its write before the next one reads, the file holds one row for
\* every append that reported success, in the order of the appends. (That
\* overlapping appends can lose a row is the state C15_Witness describes.)
C15_SerialAppendsKeepRows ==
    ~appended.interleaved =>
       /\ appended.done # <<>> => csv.kind = "table"
       /\ Len(csv.rows) = Len(appended.done)
       /\ \A k \in DOMAIN appended.done :
             /\ csv.rows[k]["Student Name"] = appended.done[k]["Student Name"]
             /\ csv.rows[k]["Month"] = appended.done[k]["Month"]
             /\ csv.rows[k]["Received Amount"] = appended.done[k]["Received Amount"]

\* two sessions read the file before either wrote it: both appends reported
\* success, and the file holds only the row of the one that wrote last
C15_Witness ==
    /\ appended.interleaved
    /\ Len(appended.done) = 2
    /\ \A s \in DOMAIN saving : saving[s].pc = "idle"
    /\ last.result = "saved"
    /\ Len(csv.rows) = 1
    /\ csv.rows[1]["Student Name"] = appended.done[2]["Student Name"]

====
